---- MODULE Spec2Model ----
(***************************************************************************)
(* Model of the voiceprint verification service                            *)
(* (src/services/verification.py) and of the speech-to-text fallback       *)
(* (src/backend/services/stt_service.py).                                  *)
(*                                                                         *)
(* Spec     : one VoiceVerificationService instance, calls made one after  *)
(*            the other.                                                   *)
(* SpecConc : the same instance shared by threads whose calls interleave   *)
(*            at the dictionary operations (the code takes no lock).       *)
(* SpecSTT  : one call of STTService.transcribe_with_fallback.             *)
(***************************************************************************)
EXTENDS Integers, Sequences, FiniteSets, TLC

(***************************************************************************)
(* Floating point.  The code computes in IEEE binary64 (numpy float64).    *)
(* The model keeps the same operations and the same rounding rule (round   *)
(* to nearest, ties to even, after each operation) with a mantissa of      *)
(* MantBits bits instead of 53, so that every intermediate value fits the  *)
(* model checker's integers.  A positive float is <<m, e>>, standing for   *)
(* m * 2^e with 2^(MantBits-1) <= m < 2^MantBits.                          *)
(***************************************************************************)
MantBits == 13

Pow2(n) == 2 ^ n

\* Scores are reported on a grid of 2^-FracBits; every float the similarity
\* can return for the modelled vectors is a multiple of the grid step.
FracBits == MantBits + 5

One == Pow2(FracBits)

RECURSIVE ScaleExp(_, _, _)
ScaleExp(N, D, e) ==
    IF N >= Pow2(MantBits) * D THEN ScaleExp(N, 2 * D, e + 1)
    ELSE IF N < Pow2(MantBits - 1) * D THEN ScaleExp(2 * N, D, e - 1)
    ELSE <<N, D, e>>

\* The float nearest to the positive rational N/D * 2^e0 (ties to even).
RoundRat(N, D, e0) ==
    LET s  == ScaleExp(N, D, e0)
        m  == s[1] \div s[2]
        r  == s[1] % s[2]
        up == (2 * r > s[2]) \/ (2 * r = s[2] /\ m % 2 = 1)
        m1 == IF up THEN m + 1 ELSE m
    IN  IF m1 = Pow2(MantBits) THEN <<Pow2(MantBits - 1), s[3] + 1>>
        ELSE <<m1, s[3]>>

RECURSIVE ISqrtBetween(_, _, _)
\* The integer square root of X, given lo*lo <= X < hi*hi.
ISqrtBetween(X, lo, hi) ==
    IF hi - lo <= 1 THEN lo
    ELSE LET mid == (lo + hi) \div 2
         IN  IF mid * mid <= X THEN ISqrtBetween(X, mid, hi)
             ELSE ISqrtBetween(X, lo, mid)

RECURSIVE SqrtScale(_, _)
\* n * 4^j brought into [4^(MantBits-1), 4^MantBits), with the exponent -j.
SqrtScale(X, e) ==
    IF X < Pow2(2 * (MantBits - 1)) THEN SqrtScale(4 * X, e - 1)
    ELSE IF X >= Pow2(2 * MantBits) THEN SqrtScale(X \div 4, e + 1)
    ELSE <<X, e>>

\* The correctly rounded square root of the integer n > 0 (an integer's
\* square root is never a tie).
FSqrt(n) ==
    LET s  == SqrtScale(n, 0)
        m  == ISqrtBetween(s[1], Pow2(MantBits - 1), Pow2(MantBits))
        m1 == IF s[1] > m * m + m THEN m + 1 ELSE m
    IN  IF m1 = Pow2(MantBits) THEN <<Pow2(MantBits - 1), s[2] + 1>>
        ELSE <<m1, s[2]>>

FMul(a, b) == RoundRat(a[1] * b[1], 1, a[2] + b[2])

\* The integer n > 0 divided by the float b.
FDiv(n, b) == RoundRat(n, b[1], 0 - b[2])

\* A float as a count of grid steps.
ToGrid(f) == f[1] * Pow2(f[2] + FracBits)

(***************************************************************************)
(* Inputs.                                                                 *)
(***************************************************************************)
\* user_id values of the calls.
Users == {1, 42}

\* Latest reading of the clock behind np.datetime64('now').
MaxTime == 1

\* What the signal analysis hands to the feature vector builder: the seven
\* scalars computed from one audio buffer (silence first).
AnalyzerOutputs ==
    { [mean_amplitude |-> 0, std_amplitude |-> 0, zero_crossing_rate |-> 0,
       spectral_centroid |-> 0, energy_low |-> 0, energy_mid |-> 0,
       energy_high |-> 0],
      [mean_amplitude |-> 1, std_amplitude |-> 0, zero_crossing_rate |-> 0,
       spectral_centroid |-> 0, energy_low |-> 0, energy_mid |-> 0,
       energy_high |-> 0],
      [mean_amplitude |-> 1, std_amplitude |-> 1, zero_crossing_rate |-> 0,
       spectral_centroid |-> 0, energy_low |-> 0, energy_mid |-> 0,
       energy_high |-> 0],
      [mean_amplitude |-> 1, std_amplitude |-> 1, zero_crossing_rate |-> 1,
       spectral_centroid |-> 0, energy_low |-> 0, energy_mid |-> 0,
       energy_high |-> 0] }

\* The feature list in the order the code assembles it.
extract_voice_features(a) ==
    << a.mean_amplitude, a.std_amplitude, a.zero_crossing_rate,
       a.spectral_centroid, a.energy_low, a.energy_mid, a.energy_high >>

\* Lists a caller can pass as `features` without going through the
\* extraction: the parameter is an unchecked List[float].
CallerLists == { <<-1, 0, 0, 0, 0, 0, 0>>, <<1, 0>> }

FeatureInputs == { extract_voice_features(a) : a \in AnalyzerOutputs } \cup CallerLists

\* The default threshold 0.8, as the nearest float, in grid steps.
DefaultThreshold == ToGrid(RoundRat(4, 5, 0))

\* The largest threshold below 1.0 that absorbs the rounding of the three
\* operations of the cosine (square root, product, quotient).
NearOne == One - 8 * Pow2(FracBits - MantBits)

Thresholds == { 0 - One, 0, DefaultThreshold, NearOne, One }

(***************************************************************************)
(* The similarity engine.                                                  *)
(***************************************************************************)
RECURSIVE DotFrom(_, _, _)
DotFrom(v1, v2, i) ==
    IF i > Len(v1) THEN 0 ELSE v1[i] * v2[i] + DotFrom(v1, v2, i + 1)

\* np.dot of two 1-d arrays; it raises ValueError unless they are aligned.
Aligned(v1, v2) == Len(v1) = Len(v2)

Dot(v1, v2) == DotFrom(v1, v2, 1)

\* Norm without the square root: the sum of squares.
Norm_squared(v) == IF Dot(v, v) = 0 THEN <<0, 0>> ELSE RoundRat(Dot(v, v), 1, 0)

\* np.linalg.norm: the rounded square root of the dot product with itself.
Norm(v) == IF Dot(v, v) = 0 THEN <<0, 0>> ELSE FSqrt(Dot(v, v))

Max(a, b) == IF a >= b THEN a ELSE b

Min(a, b) == IF a <= b THEN a ELSE b

\* calculate_similarity without the final clamp to [0, 1].
calculate_similarity_unclamped(features1, features2) ==
    LET dot_product == Dot(features1, features2)
        norm1 == Norm(features1)
        norm2 == Norm(features2)
    IN  IF norm1[1] = 0 \/ norm2[1] = 0 THEN 0
        ELSE IF dot_product = 0 THEN 0
        ELSE IF dot_product > 0
             THEN ToGrid(FDiv(dot_product, FMul(norm1, norm2)))
             ELSE 0 - ToGrid(FDiv(0 - dot_product, FMul(norm1, norm2)))

\* calculate_similarity without the zero-norm test: the quotient by a zero
\* norm is a NaN, which min(1.0, .) and max(0.0, .) turn into 1.0.
calculate_similarity_no_zero_test(features1, features2) ==
    LET dot_product == Dot(features1, features2)
        norm1 == Norm(features1)
        norm2 == Norm(features2)
    IN  IF norm1[1] = 0 \/ norm2[1] = 0 THEN One
        ELSE LET similarity ==
                     IF dot_product = 0 THEN 0
                     ELSE IF dot_product > 0
                          THEN ToGrid(FDiv(dot_product, FMul(norm1, norm2)))
                          ELSE 0 - ToGrid(FDiv(0 - dot_product, FMul(norm1, norm2)))
             IN  Max(0, Min(One, similarity))

\* The score of two aligned vectors, in grid steps.
calculate_similarity(features1, features2) ==
    LET dot_product == Dot(features1, features2)
        norm1 == Norm(features1)
        norm2 == Norm(features2)
    IN  IF norm1[1] = 0 \/ norm2[1] = 0 THEN 0
        ELSE LET similarity ==
                     IF dot_product = 0 THEN 0
                     ELSE IF dot_product > 0
                          THEN ToGrid(FDiv(dot_product, FMul(norm1, norm2)))
                          ELSE 0 - ToGrid(FDiv(0 - dot_product, FMul(norm1, norm2)))
             IN  Max(0, Min(One, similarity))

\* calculate_similarity on every aligned pair of the modelled inputs,
\* tabulated once (@@ makes the table an explicit function).
SimilarityOf ==
    [p \in {q \in FeatureInputs \X FeatureInputs : Aligned(q[1], q[2])} |->
        calculate_similarity(p[1], p[2])] @@ << >>

(***************************************************************************)
(* The service, calls made one after the other.                            *)
(***************************************************************************)
VARIABLES
    user_voiceprints,   \* the dictionary: user_id -> [features, created_at]
    now,                \* the clock
    ret,                \* the last call: its arguments and what it returned
    hist,               \* history: per user_id, the last register/remove call
    th,                 \* SpecConc: each thread's call in progress
    stt                 \* SpecSTT: the transcribe_with_fallback call in progress

vars == <<user_voiceprints, now, ret, hist, th, stt>>

\* What a call returned: ok is the boolean (registered, verified, removed),
\* score the similarity (verify only), raised the exception that left the
\* call ("" when it returned).
Return(op, u, f, t, ok, score, raised) ==
    [op |-> op, user_id |-> u, features |-> f, threshold |-> t,
     ok |-> ok, score |-> score, raised |-> raised]

NoCall == Return("none", 1, <<>>, 0, FALSE, 0, "")

\* overwrote: the last register call replaced a record that was there.
NoHist == [op |-> "none", features |-> <<>>, overwrote |-> FALSE]

InitService ==
    /\ user_voiceprints = << >>
    /\ now = 0
    /\ ret = NoCall
    /\ hist = [u \in Users |-> NoHist]

\* d[k] = v on a dictionary.
DictSet(d, k, v) == [x \in DOMAIN d \cup {k} |-> IF x = k THEN v ELSE d[x]]

\* d.clear() where del d[k] was meant.
DictDel_clear(d, k) == << >>

\* del d[k] on a dictionary that holds k.
DictDel(d, k) == [x \in DOMAIN d \ {k} |-> d[x]]

\* register that keeps the record a user already has (setdefault).
register_keeps_first(user_id, features) ==
    \E t \in now .. MaxTime :
        /\ now' = t
        /\ user_voiceprints' =
               IF user_id \in DOMAIN user_voiceprints THEN user_voiceprints
               ELSE DictSet(user_voiceprints, user_id,
                            [features |-> features, created_at |-> t])
        /\ ret' = Return("register", user_id, features, 0, TRUE, 0, "")
        /\ hist' = [hist EXCEPT ![user_id] =
                        [op |-> "register", features |-> features,
                         overwrote |-> user_id \in DOMAIN user_voiceprints]]
        /\ UNCHANGED <<th, stt>>

register_user_voiceprint(user_id, features) ==
    \E t \in now .. MaxTime :
        /\ now' = t
        /\ user_voiceprints' = DictSet(user_voiceprints, user_id,
                                       [features |-> features, created_at |-> t])
        /\ ret' = Return("register", user_id, features, 0, TRUE, 0, "")
        /\ hist' = [hist EXCEPT ![user_id] =
                        [op |-> "register", features |-> features,
                         overwrote |-> user_id \in DOMAIN user_voiceprints]]
        /\ UNCHANGED <<th, stt>>

\* verify without the membership test: the read of an absent key raises.
VerifyResult_no_membership_test(d, user_id, features, threshold) ==
    IF user_id \notin DOMAIN d THEN <<FALSE, 0, "KeyError">>
    ELSE LET registered_features == d[user_id].features
         IN  IF ~Aligned(registered_features, features)
             THEN <<FALSE, 0, "ValueError">>
             ELSE LET similarity == SimilarityOf[<<registered_features, features>>]
                  IN  <<similarity >= threshold, similarity, "">>

\* What verify returns for a dictionary d: <<verified, score, raised>>.
VerifyResult(d, user_id, features, threshold) ==
    IF user_id \notin DOMAIN d THEN <<FALSE, 0, "">>
    ELSE LET registered_features == d[user_id].features
         IN  IF ~Aligned(registered_features, features)
             THEN <<FALSE, 0, "ValueError">>
             ELSE LET similarity == SimilarityOf[<<registered_features, features>>]
                  IN  <<similarity >= threshold, similarity, "">>

verify_user_voiceprint(user_id, features, threshold) ==
    LET r == VerifyResult(user_voiceprints, user_id, features, threshold)
    IN  /\ ret' = Return("verify", user_id, features, threshold, r[1], r[2], r[3])
        /\ UNCHANGED <<user_voiceprints, now, hist, th, stt>>

\* remove that reports the record but does not delete it.
remove_keeps_record(user_id) ==
    /\ ret' = Return("remove", user_id, <<>>, 0, user_id \in DOMAIN user_voiceprints, 0, "")
    /\ hist' = [hist EXCEPT ![user_id] = [NoHist EXCEPT !.op = "remove"]]
    /\ UNCHANGED <<user_voiceprints, now, th, stt>>

remove_user_voiceprint(user_id) ==
    /\ IF user_id \in DOMAIN user_voiceprints
       THEN /\ user_voiceprints' = DictDel(user_voiceprints, user_id)
            /\ ret' = Return("remove", user_id, <<>>, 0, TRUE, 0, "")
       ELSE /\ ret' = Return("remove", user_id, <<>>, 0, FALSE, 0, "")
            /\ UNCHANGED user_voiceprints
    /\ hist' = [hist EXCEPT ![user_id] = [NoHist EXCEPT !.op = "remove"]]
    /\ UNCHANGED <<now, th, stt>>

Register == \E u \in Users, f \in FeatureInputs : register_user_voiceprint(u, f)

Verify == \E u \in Users, f \in FeatureInputs, t \in Thresholds :
              verify_user_voiceprint(u, f, t)

Remove == \E u \in Users : remove_user_voiceprint(u)


(***************************************************************************)
(* The service shared by threads.  No method takes a lock, so a thread     *)
(* can be preempted between two dictionary operations of one call.         *)
(***************************************************************************)
Threads == {"t1", "t2"}

ConcFeatures == { <<1, 0, 0, 0, 0, 0, 0>>, <<1, 1, 0, 0, 0, 0, 0>> }

ConcThresholds == { DefaultThreshold }

ThreadIdle ==
    [pc |-> "idle", op |-> "none", user_id |-> 1, features |-> <<>>,
     threshold |-> 0, created_at |-> 0, ok |-> FALSE, score |-> 0, raised |-> ""]

ThreadDone(t, ok, score, raised) ==
    [th EXCEPT ![t].pc = "done", ![t].ok = ok, ![t].score = score,
               ![t].raised = raised]

CallRegister(t, u, f) ==
    /\ th[t].pc = "idle"
    /\ th' = [th EXCEPT ![t] = [ThreadIdle EXCEPT !.pc = "reg_now", !.op = "register",
                                                 !.user_id = u, !.features = f]]
    /\ UNCHANGED <<user_voiceprints, now, ret, hist, stt>>

\* np.datetime64('now'), evaluated while the record is built.
RegNow(t) ==
    /\ th[t].pc = "reg_now"
    /\ \E tm \in now .. MaxTime :
           /\ now' = tm
           /\ th' = [th EXCEPT ![t].pc = "reg_store", ![t].created_at = tm]
    /\ UNCHANGED <<user_voiceprints, ret, hist, stt>>

\* self.user_voiceprints[user_id] = {...}
RegStore(t) ==
    /\ th[t].pc = "reg_store"
    /\ user_voiceprints' = DictSet(user_voiceprints, th[t].user_id,
                                   [features |-> th[t].features,
                                    created_at |-> th[t].created_at])
    /\ th' = ThreadDone(t, TRUE, 0, "")
    /\ UNCHANGED <<now, ret, hist, stt>>

CallVerify(t, u, f, thr) ==
    /\ th[t].pc = "idle"
    /\ th' = [th EXCEPT ![t] = [ThreadIdle EXCEPT !.pc = "ver_check", !.op = "verify",
                                                 !.user_id = u, !.features = f,
                                                 !.threshold = thr]]
    /\ UNCHANGED <<user_voiceprints, now, ret, hist, stt>>

\* if user_id not in self.user_voiceprints: return False, 0.0
VerCheck(t) ==
    /\ th[t].pc = "ver_check"
    /\ th' = IF th[t].user_id \notin DOMAIN user_voiceprints
             THEN ThreadDone(t, FALSE, 0, "")
             ELSE [th EXCEPT ![t].pc = "ver_read"]
    /\ UNCHANGED <<user_voiceprints, now, ret, hist, stt>>

\* self.user_voiceprints[user_id]['features'], then the comparison on the
\* thread's own copy.
VerRead(t) ==
    /\ th[t].pc = "ver_read"
    /\ th' = IF th[t].user_id \notin DOMAIN user_voiceprints
             THEN ThreadDone(t, FALSE, 0, "KeyError")
             ELSE LET r == VerifyResult(user_voiceprints, th[t].user_id,
                                        th[t].features, th[t].threshold)
                  IN  ThreadDone(t, r[1], r[2], r[3])
    /\ UNCHANGED <<user_voiceprints, now, ret, hist, stt>>

CallRemove(t, u) ==
    /\ th[t].pc = "idle"
    /\ th' = [th EXCEPT ![t] = [ThreadIdle EXCEPT !.pc = "rem_check", !.op = "remove",
                                                 !.user_id = u]]
    /\ UNCHANGED <<user_voiceprints, now, ret, hist, stt>>

\* if user_id in self.user_voiceprints:
RemCheck(t) ==
    /\ th[t].pc = "rem_check"
    /\ th' = IF th[t].user_id \in DOMAIN user_voiceprints
             THEN [th EXCEPT ![t].pc = "rem_del"]
             ELSE ThreadDone(t, FALSE, 0, "")
    /\ UNCHANGED <<user_voiceprints, now, ret, hist, stt>>

\* del self.user_voiceprints[user_id]
RemDel(t) ==
    /\ th[t].pc = "rem_del"
    /\ IF th[t].user_id \in DOMAIN user_voiceprints
       THEN /\ user_voiceprints' = DictDel(user_voiceprints, th[t].user_id)
            /\ th' = ThreadDone(t, TRUE, 0, "")
       ELSE /\ th' = ThreadDone(t, FALSE, 0, "KeyError")
            /\ UNCHANGED user_voiceprints
    /\ UNCHANGED <<now, ret, hist, stt>>

\* The call is over; the thread is free for the next request.
ThreadReturn(t) ==
    /\ th[t].pc = "done"
    /\ th' = [th EXCEPT ![t] = ThreadIdle]
    /\ UNCHANGED <<user_voiceprints, now, ret, hist, stt>>


(***************************************************************************)
(* STTService.transcribe_with_fallback, one call at a time.  The strings   *)
(* the code returns are named in English:                                  *)
(*   MsgEmpty          line 202      MsgFailed         line 220            *)
(*   MsgUnknown        line 172      MsgUnavailable    line 175            *)
(*   MsgRecFailed      line 178      MsgCannotProcess  line 265            *)
(* A print can fail (an encoding or I/O error on stdout); inside an except *)
(* block that is the only way an exception leaves transcribe_audio.        *)
(***************************************************************************)
MsgEmpty == "audio data empty"

MsgFailed == "processing failed: <e>"

MsgUnknown == "cannot recognise audio content"

MsgUnavailable == "recognition service unavailable"

MsgRecFailed == "recognition failed"

MsgCannotProcess == "cannot process audio"

Text == "recognised text"

\* The type of audio_input: the two isinstance tests accept BytesIO and
\* bytes/bytearray; anything else (a path, an open file) is "other".
InputKinds == {"bytes", "bytearray", "BytesIO", "other"}

\* What the input holds: nothing, a 16 kHz mono 16-bit WAV, audio in
\* another format, or bytes that are no audio at all.
InputData == {"empty", "wav", "audio", "garbage"}

\* How an attempt with pydub or with ffmpeg ends.
ToolOutcomes == {"ImportError", "error", "ok"}

STTIdle ==
    [pc |-> "idle", kind |-> "bytes", data |-> "empty", result |-> "",
     raised |-> FALSE, temp_filename |-> FALSE, temp_exists |-> FALSE,
     memory_failed |-> FALSE, file_tried |-> FALSE]

\* transcribe_with_fallback(audio_input) is called: line 235.
STTCall ==
    /\ stt.pc = "idle"
    /\ \E k \in InputKinds, d \in InputData :
           stt' = [STTIdle EXCEPT !.pc = "normalise", !.kind = k, !.data = d]
    /\ UNCHANGED <<user_voiceprints, now, ret, hist, th>>

\* An exception inside the try block of transcribe_audio.
MemoryRaise == [stt EXCEPT !.pc = "memory_except", !.memory_failed = TRUE]

\* transcribe_audio, lines 193-202.
Normalise ==
    /\ stt.pc = "normalise"
    /\ stt' = IF stt.kind = "other" THEN MemoryRaise
              ELSE IF stt.data = "empty"
                   THEN [stt EXCEPT !.pc = "done", !.result = MsgEmpty]
                   ELSE [stt EXCEPT !.pc = "convert"]
    /\ UNCHANGED <<user_voiceprints, now, ret, hist, th>>

\* Whether _convert_to_wav_in_memory returns a buffer, given how pydub and
\* ffmpeg end: pydub first; ffmpeg when pydub is missing or fails; the
\* input itself when ffmpeg is missing and the input is the expected WAV.
\* A failing ffmpeg raises past the WAV test.
ConvertReturns(data, pydub, ffmpeg) ==
    \/ pydub = "ok"
    \/ pydub # "ok" /\ ffmpeg = "ok"
    \/ pydub # "ok" /\ ffmpeg = "ImportError" /\ data = "wav"

\* transcribe_audio, lines 204-208.
Convert ==
    /\ stt.pc = "convert"
    /\ \E print204 \in BOOLEAN, print128 \in BOOLEAN, print208 \in BOOLEAN,
          pydub \in ToolOutcomes, ffmpeg \in ToolOutcomes :
           /\ stt.data = "garbage" => pydub # "ok" /\ ffmpeg # "ok"
           /\ stt' = IF print204 /\ ConvertReturns(stt.data, pydub, ffmpeg) /\ print208
                     THEN [stt EXCEPT !.pc = "audio_data"]
                     ELSE MemoryRaise
    /\ UNCHANGED <<user_voiceprints, now, ret, hist, th>>

\* transcribe_audio, line 211: _bytes_to_audio_data.
MakeAudioData ==
    /\ stt.pc = "audio_data"
    /\ \E wave_ok \in BOOLEAN :
           stt' = IF wave_ok THEN [stt EXCEPT !.pc = "recognise"] ELSE MemoryRaise
    /\ UNCHANGED <<user_voiceprints, now, ret, hist, th>>

\* transcribe_audio, lines 214-216: _recognize_from_memory returns the text
\* or one of its three messages; two of its handlers print first.
Recognise ==
    /\ stt.pc = "recognise"
    /\ \E r \in {Text, MsgUnknown, MsgUnavailable, MsgRecFailed}, print_ok \in BOOLEAN :
           stt' = IF r \in {MsgUnavailable, MsgRecFailed} /\ ~print_ok
                  THEN MemoryRaise
                  ELSE [stt EXCEPT !.pc = "done", !.result = r]
    /\ UNCHANGED <<user_voiceprints, now, ret, hist, th>>

\* transcribe_audio, lines 218-220: the handler returns a string; only its
\* own print can raise.
MemoryExcept ==
    /\ stt.pc = "memory_except"
    /\ \E print_ok \in BOOLEAN :
           stt' = IF print_ok
                  THEN [stt EXCEPT !.pc = "done", !.result = MsgFailed]
                  ELSE [stt EXCEPT !.pc = "fallback_except"]
    /\ UNCHANGED <<user_voiceprints, now, ret, hist, th>>

\* transcribe_with_fallback, lines 237-241.
FallbackExcept ==
    /\ stt.pc = "fallback_except"
    /\ \E print_ok \in BOOLEAN :
           stt' = IF print_ok
                  THEN [stt EXCEPT !.pc = "create_temp"]
                  ELSE [stt EXCEPT !.pc = "done", !.raised = TRUE]
    /\ UNCHANGED <<user_voiceprints, now, ret, hist, th>>

\* Lines 244-245: NamedTemporaryFile(delete=False).
CreateTemp ==
    /\ stt.pc = "create_temp"
    /\ \E created \in BOOLEAN :
           stt' = IF created
                  THEN [stt EXCEPT !.pc = "write_temp", !.temp_filename = TRUE,
                                   !.temp_exists = TRUE]
                  ELSE [stt EXCEPT !.pc = "fallback_error"]
    /\ UNCHANGED <<user_voiceprints, now, ret, hist, th>>

\* Lines 248-254: an input of another type is not written at all.
WriteTemp ==
    /\ stt.pc = "write_temp"
    /\ \E written \in BOOLEAN :
           stt' = IF written \/ stt.kind = "other"
                  THEN [stt EXCEPT !.pc = "recognise_file"]
                  ELSE [stt EXCEPT !.pc = "fallback_error"]
    /\ UNCHANGED <<user_voiceprints, now, ret, hist, th>>

\* Lines 257-261: sr.AudioFile reads the file, recognize_google answers or
\* raises.
RecogniseFile ==
    /\ stt.pc = "recognise_file"
    /\ \E recognised \in BOOLEAN :
           stt' = IF recognised /\ stt.kind # "other" /\ stt.data \in {"wav", "audio"}
                  THEN [stt EXCEPT !.pc = "finally", !.file_tried = TRUE, !.result = Text]
                  ELSE [stt EXCEPT !.pc = "fallback_error", !.file_tried = TRUE]
    /\ UNCHANGED <<user_voiceprints, now, ret, hist, th>>

\* Lines 263-265.
FallbackError ==
    /\ stt.pc = "fallback_error"
    /\ \E print_ok \in BOOLEAN :
           stt' = IF print_ok
                  THEN [stt EXCEPT !.pc = "finally", !.result = MsgCannotProcess]
                  ELSE [stt EXCEPT !.pc = "finally", !.raised = TRUE]
    /\ UNCHANGED <<user_voiceprints, now, ret, hist, th>>

\* Lines 266-269: the finally block; an os.remove that fails raises.
Cleanup ==
    /\ stt.pc = "finally"
    /\ \E removed \in BOOLEAN :
           stt' = IF ~(stt.temp_filename /\ stt.temp_exists)
                  THEN [stt EXCEPT !.pc = "done"]
                  ELSE IF removed
                       THEN [stt EXCEPT !.pc = "done", !.temp_exists = FALSE]
                       ELSE [stt EXCEPT !.pc = "done", !.raised = TRUE, !.result = ""]
    /\ UNCHANGED <<user_voiceprints, now, ret, hist, th>>

\* The caller has the outcome; the service is free for the next call.
STTReturn ==
    /\ stt.pc = "done"
    /\ stt' = STTIdle
    /\ UNCHANGED <<user_voiceprints, now, ret, hist, th>>

(***************************************************************************)
(* Specifications.                                                         *)
(***************************************************************************)
Init ==
    /\ InitService
    /\ th = [t \in Threads |-> ThreadIdle]
    /\ stt = STTIdle

Next == Register \/ Verify \/ Remove

Spec == Init /\ [][Next]_vars

NextConc ==
    \E t \in Threads :
        \/ \E u \in Users, f \in ConcFeatures : CallRegister(t, u, f)
        \/ RegNow(t)
        \/ RegStore(t)
        \/ \E u \in Users, f \in ConcFeatures, thr \in ConcThresholds : CallVerify(t, u, f, thr)
        \/ VerCheck(t)
        \/ VerRead(t)
        \/ \E u \in Users : CallRemove(t, u)
        \/ RemCheck(t)
        \/ RemDel(t)
        \/ ThreadReturn(t)

SpecConc == Init /\ [][NextConc]_vars

NextSTT ==
    \/ STTCall
    \/ Normalise
    \/ Convert
    \/ MakeAudioData
    \/ Recognise
    \/ MemoryExcept
    \/ FallbackExcept
    \/ CreateTemp
    \/ WriteTemp
    \/ RecogniseFile
    \/ FallbackError
    \/ Cleanup
    \/ STTReturn

SpecSTT == Init /\ [][NextSTT]_vars


(***************************************************************************)
(* Properties of the sequential service (Spec).                            *)
(***************************************************************************)
Registered(u) == u \in DOMAIN user_voiceprints

\* C1: a record for user_id u is in the dictionary exactly when u was
\* registered and not removed since; before any call the dictionary is
\* empty.
C1_RecordIffRegistered ==
    /\ \A u \in Users : Registered(u) <=> hist[u].op = "register"
    /\ ret.op = "none" => user_voiceprints = << >>

C1_Witness ==
    /\ ret.op = "verify"
    /\ hist[1].op = "remove" /\ ~Registered(1)
    /\ hist[42].op = "register" /\ hist[42].overwrote /\ Registered(42)

\* C2: verify on a user_id that was never registered, or was removed since,
\* returns (False, 0.0) whatever the features and the threshold, and does
\* not raise.
C2_FailsClosed ==
    (ret.op = "verify" /\ hist[ret.user_id].op # "register")
        => (ret.ok = FALSE /\ ret.score = 0 /\ ret.raised = "")

C2_Witness ==
    /\ ret.op = "verify" /\ hist[ret.user_id].op = "remove"
    /\ ret.threshold < 0 /\ ret.features = <<1, 0>>
    /\ ret.ok = FALSE

\* A verify of the very features the record of the user holds.
VerifiedSameFeatures ==
    /\ ret.op = "verify"
    /\ Registered(ret.user_id)
    /\ user_voiceprints[ret.user_id].features = ret.features

\* C3 as stated: registering and then verifying the same features is
\* verified for every threshold <= 1.0.
C3_Original ==
    (VerifiedSameFeatures /\ ret.threshold <= One) => ret.ok

\* C3 restricted to features of non-zero norm only: still too strong, the
\* rounded score of <<1, 1, 0, 0, 0, 0, 0>> against itself is below 1.0.
C3_NonZeroAtOne ==
    (VerifiedSameFeatures /\ Dot(ret.features, ret.features) # 0
                          /\ ret.threshold <= One) => ret.ok

\* C3, amended: registering features of non-zero norm and then verifying
\* the same features is verified for every threshold that lies below 1.0
\* by the rounding of the cosine (a few units in the last place); the
\* score is that close to 1.0, not always 1.0.
C3_SameFeaturesVerified ==
    (VerifiedSameFeatures /\ Dot(ret.features, ret.features) # 0
                          /\ ret.threshold <= NearOne)
        => (ret.ok /\ ret.raised = "" /\ ret.score >= NearOne)

C3_Witness ==
    /\ VerifiedSameFeatures
    /\ ret.features = <<1, 1, 0, 0, 0, 0, 0>>
    /\ ret.threshold = NearOne
    /\ ret.ok /\ ret.score < One

\* C4: register returns True and replaces the record, and verify on a
\* registered user answers from the features of the latest register call
\* alone: the score is their similarity with the candidate, verified is
\* score >= threshold.
C4_LastWriteWins ==
    /\ ret.op = "register" => (ret.ok /\ ret.raised = "")
    /\ \A u \in Users :
           hist[u].op = "register" =>
               /\ Registered(u)
               /\ user_voiceprints[u].features = hist[u].features
               /\ DOMAIN user_voiceprints[u] = {"features", "created_at"}
    /\ (ret.op = "verify" /\ hist[ret.user_id].op = "register") =>
           LET f == hist[ret.user_id].features
           IN  IF Aligned(f, ret.features)
               THEN /\ ret.raised = ""
                    /\ ret.score = calculate_similarity(f, ret.features)
                    /\ ret.ok = (ret.score >= ret.threshold)
               ELSE ret.raised = "ValueError"

C4_Witness ==
    /\ ret.op = "verify"
    /\ hist[ret.user_id].op = "register" /\ hist[ret.user_id].overwrote
    /\ hist[ret.user_id].features = <<1, 0, 0, 0, 0, 0, 0>>
    /\ ret.features = <<1, 1, 0, 0, 0, 0, 0>>
    /\ ret.score > 0 /\ ret.score < DefaultThreshold
    /\ ret.threshold = DefaultThreshold /\ ~ret.ok

\* C5: remove returns True exactly when the record was there, deletes that
\* record and no other, leaves the dictionary as it was when it returns
\* False, and never raises.
C5_RemoveFrame ==
    [][ ret'.op = "remove" =>
            LET u == ret'.user_id
            IN  /\ ret'.ok = Registered(u)
                /\ ret'.raised = ""
                /\ DOMAIN user_voiceprints' = DOMAIN user_voiceprints \ {u}
                /\ \A v \in DOMAIN user_voiceprints' :
                       user_voiceprints'[v] = user_voiceprints[v]
                /\ ~ret'.ok => user_voiceprints' = user_voiceprints ]_vars

C5_Witness ==
    /\ ret.op = "remove" /\ ret.ok /\ ret.user_id = 1
    /\ ~Registered(1) /\ Registered(42)

\* C6: every score verify returns is in [0.0, 1.0], and it is 0.0 when the
\* dot product of the registered and the candidate features is negative.
C6_ScoreInUnitInterval ==
    ret.op = "verify" =>
        /\ 0 <= ret.score /\ ret.score <= One
        /\ ( /\ Registered(ret.user_id)
             /\ Aligned(user_voiceprints[ret.user_id].features, ret.features)
             /\ Dot(user_voiceprints[ret.user_id].features, ret.features) < 0 )
               => ret.score = 0

C6_Witness ==
    /\ ret.op = "verify" /\ Registered(ret.user_id)
    /\ user_voiceprints[ret.user_id].features = <<-1, 0, 0, 0, 0, 0, 0>>
    /\ ret.features = <<1, 0, 0, 0, 0, 0, 0>>
    /\ ret.score = 0 /\ ret.raised = ""

\* C7 as stated: the extraction returns seven entries in the fixed order,
\* and the features of every record of the dictionary have seven elements.
C7_SevenElements ==
    /\ \A a \in AnalyzerOutputs :
           /\ Len(extract_voice_features(a)) = 7
           /\ extract_voice_features(a)[1] = a.mean_amplitude
           /\ extract_voice_features(a)[7] = a.energy_high
    /\ \A u \in DOMAIN user_voiceprints : Len(user_voiceprints[u].features) = 7

\* C9: when the registered or the candidate features have norm 0 (the zero
\* vector against itself included) the score is exactly 0.0, so verified
\* holds only for a threshold <= 0.0.
C9_ZeroNorm ==
    ( /\ ret.op = "verify" /\ Registered(ret.user_id)
      /\ Aligned(user_voiceprints[ret.user_id].features, ret.features)
      /\ \/ Dot(user_voiceprints[ret.user_id].features,
                user_voiceprints[ret.user_id].features) = 0
         \/ Dot(ret.features, ret.features) = 0 )
        => /\ ret.score = 0 /\ ret.raised = ""
           /\ ret.ok = (ret.threshold <= 0)

C9_Witness ==
    /\ VerifiedSameFeatures
    /\ ret.features = <<0, 0, 0, 0, 0, 0, 0>>
    /\ ret.threshold = DefaultThreshold
    /\ ~ret.ok /\ ret.score = 0

(***************************************************************************)
(* Properties of the shared service (SpecConc).                            *)
(***************************************************************************)
\* C8 as stated: the calls of the threads are serialized; in particular no
\* verify and no remove raises because another call removed the record
\* between its membership test and its read or delete.
C8_NoCallRaises ==
    \A t \in Threads : th[t].pc = "done" => th[t].raised # "KeyError"

(***************************************************************************)
(* Properties of transcribe_with_fallback (SpecSTT).                       *)
(***************************************************************************)
\* C10 as stated: when the in-memory transcription has failed, the call
\* has gone on to the temporary file and returns the text recognised from
\* it or the message of line 265, and the temporary file is gone.
C10_FallsBackToFile ==
    (stt.pc = "done" /\ ~stt.raised /\ stt.memory_failed)
        => /\ stt.file_tried
           /\ stt.result \in {Text, MsgCannotProcess}
           /\ ~stt.temp_exists

====
